---- MODULE Spec2Model ----
(***************************************************************************)
(* Model of the GraphQL resolver layer of api.takurinton.dev               *)
(* (src/src/resolvers.rs): the resolvers ping, getPost, getPosts and the   *)
(* three extend_* resolvers, the data access functions pool, count,        *)
(* get_post and get_posts, and the MySQL tables they read.                 *)
(*                                                                         *)
(* Every resolver call is one stateless request/response cycle, so every   *)
(* resolver is one action.  What the environment answers during the call   *)
(* (is DATABASE_URL set, does the connection succeed, does the query       *)
(* succeed, was a post published between two queries) is drawn with \E.    *)
(*                                                                         *)
(* The two Japanese messages of the source are written in romaji, since    *)
(* the module is ASCII:                                                    *)
(*   "toukou ga sonzai shimasen"  (Display of NotFoundPost/NotFoundPosts)  *)
(*   "toukou ga arimasen"         (getPosts, resolvers.rs line 143)        *)
(* The contents column is modelled by its length in characters.            *)
(***************************************************************************)
EXTENDS Integers, Sequences, FiniteSets, TLC

VARIABLES db, overflow_checks, request, env, result, queries, pool_returns,
          dal_returns

vars == <<db, overflow_checks, request, env, result, queries, pool_returns,
          dal_returns>>

(***************************************************************************)
(* Bounds of the model                                                     *)
(***************************************************************************)
MaxPosts == 6

(***************************************************************************)
(* i32 arithmetic.  A debug build (overflow-checks on) panics on overflow, *)
(* a release build wraps modulo 2^32.  Every operator returns the wrapped  *)
(* value v and the overflow flag o, computed without leaving the i32       *)
(* range.                                                                  *)
(***************************************************************************)
I32Max == 2147483647
I32Min == -I32Max - 1

add_i32(a, b) ==
  IF a >= 0 /\ b >= 0 /\ b > I32Max - a
    THEN [v |-> ((a - I32Max) - 1) + ((b - I32Max) - 1), o |-> TRUE]
  ELSE IF a < 0 /\ b < 0 /\ b < I32Min - a
    THEN [v |-> ((a + I32Max) + 1) + ((b + I32Max) + 1), o |-> TRUE]
  ELSE [v |-> a + b, o |-> FALSE]

sub_i32(a, b) ==
  IF b = I32Min
    THEN (IF a >= 0 THEN [v |-> (a + I32Min), o |-> TRUE]
                    ELSE [v |-> (a - I32Min), o |-> FALSE])
    ELSE add_i32(a, -b)

RECURSIVE mul_i32(_, _)
\* n * a for a small literal n >= 0, by repeated addition
mul_i32(n, a) ==
  IF n = 0 THEN [v |-> 0, o |-> FALSE]
  ELSE LET r == mul_i32(n - 1, a)
           s == add_i32(r.v, a)
       IN  [v |-> s.v, o |-> r.o \/ s.o]

(***************************************************************************)
(* Errors                                                                  *)
(***************************************************************************)
NotFoundPost == [tag |-> "NotFoundPost", reason |-> ""]
NotFoundPosts == [tag |-> "NotFoundPosts", reason |-> ""]
ServerError(reason) == [tag |-> "ServerError", reason |-> reason]

\* #[error("...")] of BlogError
Display(err) ==
  IF err.tag = "ServerError" THEN "ServerError" ELSE "toukou ga sonzai shimasen"

\* FieldError::new(message): a message and no extensions
FieldErrorNew(message) == [message |-> message, extensions |-> {}]

\* BlogError.into(): the blanket From<T: Display> conversion of async_graphql
Into(err) == [message |-> Display(err), extensions |-> {}]

\* ErrorExtensions::extend of BlogError
extend(err) ==
  [message |-> Display(err),
   extensions |->
     IF err.tag = "ServerError" THEN {<<"reason", err.reason>>}
                                ELSE {<<"code", "NOT_FOUND">>}]

Ok(v) == [kind |-> "Ok", val |-> v]
Err(e) == [kind |-> "Err", err |-> e]
Panic == [kind |-> "Panic"]

(***************************************************************************)
(* The database: tables blogapp_post joined to blogapp_category            *)
(***************************************************************************)
PageLength == 5
ListContentsLength == 200

CategoryOf(i) == IF i % 3 = 0 THEN "tech" ELSE "life"

Row(i, closed) ==
  [id |-> i, title |-> "title", category |-> CategoryOf(i),
   contents |-> IF i % 2 = 1 THEN 300 ELSE 120,
   pub_date |-> i, open |-> IF i \in closed THEN 0 ELSE 1]

Tables ==
  { {Row(i, closed) : i \in 1..n} : n \in 0..MaxPosts, closed \in {{}, {1}} }

\* an external writer publishes one more post
Publish(d) ==
  IF Cardinality(d) < MaxPosts THEN d \cup {Row(Cardinality(d) + 1, {})} ELSE d

\* SELECT count(*) as count FROM blogapp_post where open = true
SelectCount(d) == Cardinality({r \in d : r.open = 1})

\* mutant: the by-id lookup filtered by open = true like the listing
SelectOpenById(d, id) == {r \in d : r.id = id /\ r.open = 1}

\* SELECT ... WHERE blogapp_post.id = ?
SelectById(d, id) == {r \in d : r.id = id}

RECURSIVE OrderByPubDateDesc(_)
OrderByPubDateDesc(rows) ==
  IF rows = {} THEN <<>>
  ELSE LET newest == CHOOSE r \in rows : \A s \in rows : s.pub_date <= r.pub_date
       IN  <<newest>> \o OrderByPubDateDesc(rows \ {newest})

\* left(contents, 200)
Left(len, n) == IF len > n THEN n ELSE len

\* LIMIT 5 OFFSET ? on an ordered row sequence, for an offset >= 0
LimitOffset(rows, offset) ==
  IF offset >= Len(rows) THEN <<>>
  ELSE SubSeq(rows, offset + 1,
              IF offset + PageLength > Len(rows) THEN Len(rows)
                                                 ELSE offset + PageLength)

\* the listing query of get_posts; category_query is "" for category ""
SelectPage(d, category, offset) ==
  LET matching == {r \in d : r.open = 1 /\ (category = "" \/ r.category = category)}
      ordered == OrderByPubDateDesc(matching)
      page == LimitOffset(ordered, offset)
  IN  [i \in 1..Len(page) |->
         [page[i] EXCEPT !.contents = Left(page[i].contents, ListContentsLength)]]

(***************************************************************************)
(* Data access layer.  Each function returns its Result in ret, the        *)
(* result of its pool() call in pool and the queries it sent in sent.      *)
(***************************************************************************)
\* e: "ok", "unset" (DATABASE_URL missing) or "refused" (connect failed)
pool(e) ==
  IF e = "unset" THEN Err(ServerError("DATABASE_URL is not set"))
  ELSE IF e = "refused" THEN Err(ServerError("driver: connection refused"))
  ELSE Ok("pool")

\* mutant: a failed count query reported as a count of 0
count_zero_on_failure(e, q, d) ==
  LET p == pool(e)
  IN  IF p.kind = "Err"
        THEN [ret |-> Err(ServerError("Database Error: connection failed")),
              pool |-> p, sent |-> <<>>]
      ELSE [ret |-> IF q = "ok" THEN Ok(SelectCount(d)) ELSE Ok(0),
            pool |-> p, sent |-> <<[query |-> "count"]>>]

count(e, q, d) ==
  LET p == pool(e)
  IN  IF p.kind = "Err"
        THEN [ret |-> Err(ServerError("Database Error: connection failed")),
              pool |-> p, sent |-> <<>>]
      ELSE [ret |-> IF q = "ok" THEN Ok(SelectCount(d))
                    ELSE Err(ServerError("unknown error")),
            pool |-> p, sent |-> <<[query |-> "count"]>>]

get_post(id, e, q, d) ==
  LET p == pool(e)
      rows == SelectById(d, id)
  IN  IF p.kind = "Err"
        THEN [ret |-> Err(ServerError("Database Error: connection failed")),
              pool |-> p, sent |-> <<>>]
      ELSE [ret |-> IF q = "ok" /\ rows # {} THEN Ok(CHOOSE r \in rows : TRUE)
                    ELSE Err(NotFoundPost),
            pool |-> p, sent |-> <<[query |-> "get_post", id |-> id]>>]

\* let offset = if page == 0 { 0 } else { 5 * (page - 1) };
Offset(page) ==
  IF page = 0 THEN [v |-> 0, o |-> FALSE]
  ELSE LET m == sub_i32(page, 1)
           t == mul_i32(PageLength, m.v)
       IN  [v |-> t.v, o |-> m.o \/ t.o]

get_posts(page, category, e, q, d, checks) ==
  LET p == pool(e)
      offset == Offset(page)
      sent == <<[query |-> "get_posts", page |-> page, category |-> category,
                 limit |-> PageLength, offset |-> offset.v]>>
  IN  IF p.kind = "Err"
        THEN [ret |-> Err(ServerError("Database Error: connection failed")),
              pool |-> p, sent |-> <<>>]
      ELSE IF offset.o /\ checks
        THEN [ret |-> Panic, pool |-> p, sent |-> <<>>]
      \* MySQL rejects a negative OFFSET argument
      ELSE IF q = "ok" /\ offset.v >= 0
        THEN [ret |-> Ok(SelectPage(d, category, offset.v)),
              pool |-> p, sent |-> sent]
      ELSE [ret |-> Err(ServerError("unknown error")), pool |-> p, sent |-> sent]

(***************************************************************************)
(* Resolvers.  Each returns what the caller receives in result, and the    *)
(* pool() results, data access results and queries of the call in order.   *)
(***************************************************************************)
Value(v) == [kind |-> "Ok", val |-> v]
Error(fe) == [kind |-> "Err", err |-> fe]

ping == Value([status |-> "ok", code |-> 200])

getPost(id, e, d) ==
  LET post == get_post(id, e.p1, e.q1, d)
      r == post.ret
  IN  [result |->
         IF r.kind = "Ok" THEN Value(r.val)
         ELSE IF r.err.tag = "NotFoundPost"
           THEN Error(FieldErrorNew("toukou ga sonzai shimasen"))
         ELSE IF r.err.tag = "ServerError"
           THEN Error(FieldErrorNew(r.err.reason))
         ELSE Error(FieldErrorNew("unknown error")),
       pools |-> <<post.pool>>, dal |-> <<r>>, sent |-> post.sent, db |-> d]

\* mutant: page 0 is not replaced by 1
KeepPage(page) == page

\* let page = if page == 0 { 1 } else { page };
NormalizePage(page) == IF page = 0 THEN 1 ELSE page

\* let page_size = (count / 5) + 1;
PageSize(n) == (n \div PageLength) + 1

\* let next = if page == page_size { Some(page_size) } else { Some(page + 1) };
NextPage(page, page_size) ==
  IF page = page_size THEN [v |-> page_size, o |-> FALSE] ELSE add_i32(page, 1)

\* let prev = if page == 0 { Some(0) } else { Some(page - 1) };
PrevPage(page) ==
  IF page = 0 THEN [v |-> 0, o |-> FALSE] ELSE sub_i32(page, 1)

\* the part of getPosts after a successful count of n > 0 posts
Paginate(page, categoryForResult, n, e, d, checks, c) ==
  LET posts == get_posts(page, categoryForResult, e.p2, e.q2, d, checks)
      r == posts.ret
      page_size == PageSize(n)
      next == NextPage(page, page_size)
      prev == PrevPage(page)
      log == [pools |-> <<c.pool, posts.pool>>, dal |-> <<c.ret, r>>,
              sent |-> c.sent \o posts.sent, db |-> d]
  IN  IF r.kind = "Panic" THEN [result |-> Panic] @@ log
      ELSE IF r.kind = "Err"
        THEN [result |->
                IF r.err.tag = "NotFoundPosts"
                  THEN Error(FieldErrorNew("toukou ga arimasen"))
                ELSE IF r.err.tag = "ServerError"
                  THEN Error(FieldErrorNew(r.err.reason))
                ELSE Error(FieldErrorNew("unknown error"))] @@ log
      ELSE IF page > page_size
        THEN [result |-> Error(Into(NotFoundPosts))] @@ log
      ELSE IF (next.o \/ prev.o) /\ checks THEN [result |-> Panic] @@ log
      ELSE [result |->
              Value([current |-> page, next |-> <<next.v>>, prev |-> <<prev.v>>,
                     category |-> categoryForResult, page_size |-> page_size,
                     results |-> r.val])] @@ log

\* mutant: a count of 0 is not turned into NotFoundPosts
getPosts_no_zero_check(page0, category, e, d, checks) ==
  LET page == NormalizePage(page0)
      c == count(e.p1, e.q1, d)
      log == [pools |-> <<c.pool>>, dal |-> <<c.ret>>, sent |-> c.sent, db |-> d]
  IN  IF c.ret.kind = "Err"
        THEN [result |->
                IF c.ret.err.tag = "ServerError"
                  THEN Error(FieldErrorNew(c.ret.err.reason))
                  ELSE Error(FieldErrorNew("unknown error"))] @@ log
      ELSE Paginate(page, category, c.ret.val, e,
                    IF e.publish THEN Publish(d) ELSE d, checks, c)

getPosts(page0, category, e, d, checks) ==
  LET page == NormalizePage(page0)
      c == count(e.p1, e.q1, d)
      log == [pools |-> <<c.pool>>, dal |-> <<c.ret>>, sent |-> c.sent, db |-> d]
  IN  IF c.ret.kind = "Err"
        THEN [result |->
                IF c.ret.err.tag = "ServerError"
                  THEN Error(FieldErrorNew(c.ret.err.reason))
                  ELSE Error(FieldErrorNew("unknown error"))] @@ log
      ELSE IF c.ret.val = 0
        THEN [result |-> Error(Into(NotFoundPosts))] @@ log
      ELSE Paginate(page, category, c.ret.val, e,
                    IF e.publish THEN Publish(d) ELSE d, checks, c)

extend_result == Error(extend(NotFoundPost))
extend_results == Error(extend(NotFoundPosts))
extend_server_error == Error(extend(ServerError("ServerError")))

(***************************************************************************)
(* Inputs                                                                  *)
(***************************************************************************)
PoolOutcomes == {"ok", "unset", "refused"}
QueryOutcomes == {"ok", "fail"}

NoEnv == [p1 |-> "ok", q1 |-> "ok", p2 |-> "ok", q2 |-> "ok", publish |-> FALSE]

\* what the environment answers during one getPost call
PostEnvs ==
  { [NoEnv EXCEPT !.p1 = p, !.q1 = q] :
      p \in PoolOutcomes, q \in QueryOutcomes } \
  { x \in [p1 : PoolOutcomes, q1 : QueryOutcomes, p2 : {"ok"}, q2 : {"ok"},
           publish : {FALSE}] : x.p1 # "ok" /\ x.q1 # "ok" }

\* what the environment answers during one getPosts call; answers to
\* questions that are never asked are left at their defaults
PostsEnvs ==
  { x \in [p1 : PoolOutcomes, q1 : QueryOutcomes, p2 : PoolOutcomes,
           q2 : QueryOutcomes, publish : BOOLEAN] :
      /\ x.p1 # "ok" => x.q1 = "ok"
      /\ (x.p1 # "ok" \/ x.q1 # "ok") =>
            (x.p2 = "ok" /\ x.q2 = "ok" /\ ~x.publish)
      /\ x.p2 # "ok" => x.q2 = "ok" }

\* requested pages: around 0, around the last page, and the i32 values at
\* which 5 * (page - 1) leaves the i32 range
OverflowPage == (I32Max \div PageLength) + 2
Pages == {I32Min, -1, I32Max, OverflowPage} \cup (0 .. PageSize(MaxPosts) + 1)

Categories == {"", "tech"}

Ids == 0 .. MaxPosts + 1

NoRequest == [op |-> "none", id |-> 0, page |-> 0, category |-> ""]

(***************************************************************************)
(* State machine                                                           *)
(***************************************************************************)
Init ==
  /\ db \in Tables
  /\ overflow_checks \in BOOLEAN
  /\ request = NoRequest
  /\ env = NoEnv
  /\ result = [kind |-> "None"]
  /\ queries = <<>>
  /\ pool_returns = <<>>
  /\ dal_returns = <<>>

Respond(r) ==
  /\ result' = r.result
  /\ queries' = r.sent
  /\ pool_returns' = r.pools
  /\ dal_returns' = r.dal
  /\ db' = r.db
  /\ UNCHANGED overflow_checks

NoCalls(d) == [pools |-> <<>>, dal |-> <<>>, sent |-> <<>>, db |-> d]

Ping ==
  /\ request' = [NoRequest EXCEPT !.op = "ping"]
  /\ env' = NoEnv
  /\ Respond([result |-> ping] @@ NoCalls(db))

GetPost ==
  \E id \in Ids, e \in PostEnvs :
    /\ request' = [NoRequest EXCEPT !.op = "getPost", !.id = id]
    /\ env' = e
    /\ Respond(getPost(id, e, db))

GetPosts ==
  \E page \in Pages, category \in Categories, e \in PostsEnvs :
    /\ request' = [NoRequest EXCEPT !.op = "getPosts", !.page = page,
                                    !.category = category]
    /\ env' = e
    /\ Respond(getPosts(page, category, e, db, overflow_checks))

ExtendResult ==
  /\ request' = [NoRequest EXCEPT !.op = "extend_result"]
  /\ env' = NoEnv
  /\ Respond([result |-> extend_result] @@ NoCalls(db))

ExtendResults ==
  /\ request' = [NoRequest EXCEPT !.op = "extend_results"]
  /\ env' = NoEnv
  /\ Respond([result |-> extend_results] @@ NoCalls(db))

ExtendServerError ==
  /\ request' = [NoRequest EXCEPT !.op = "extend_server_error"]
  /\ env' = NoEnv
  /\ Respond([result |-> extend_server_error] @@ NoCalls(db))

Next ==
  \/ Ping
  \/ GetPost
  \/ GetPosts
  \/ ExtendResult
  \/ ExtendResults
  \/ ExtendServerError

Spec == Init /\ [][Next]_vars

(***************************************************************************)
(* Properties                                                              *)
(***************************************************************************)
NotFoundMessage == "toukou ga sonzai shimasen"

\* the error a caller receives for BlogError::NotFoundPost / NotFoundPosts
IsNotFound(r) == r.kind = "Err" /\ r.err.message = NotFoundMessage

\* the count query of the last getPosts call succeeded and reported n
CountReported(n) ==
  /\ request.op = "getPosts"
  /\ Len(dal_returns) >= 1
  /\ dal_returns[1].kind = "Ok"
  /\ dal_returns[1].val = n

PageFetchIssued == \E i \in 1..Len(queries) : queries[i].query = "get_posts"

\* the page getPosts serves for the requested page
Served(page) == IF page = 0 THEN 1 ELSE page

\* C1: when the count query succeeds and reports 0 open posts, getPosts
\* fails with NotFound for every page and category, returns neither a Posts
\* record nor a server error, and never issues the page-fetch query.
C1_ZeroCountIsNotFound ==
  CountReported(0) =>
    /\ IsNotFound(result)
    /\ result.err = [message |-> NotFoundMessage, extensions |-> {}]
    /\ ~PageFetchIssued
    /\ Len(dal_returns) = 1

C1_Witness ==
  /\ CountReported(0)
  /\ request.page = -1
  /\ request.category = "tech"
  /\ IsNotFound(result)

\* C2: when the count is n > 0 and the served page exceeds floor(n/5)+1,
\* getPosts ends as NotFound, for every page of the i32 range (stated here
\* for calls in which the connection and the page query do not fail).
C2_PageBeyondLastIsNotFound ==
  (/\ \E n \in 1..(MaxPosts + 1) :
         CountReported(n) /\ Served(request.page) > (n \div 5) + 1
   /\ env.p2 = "ok"
   /\ env.q2 = "ok")
  => IsNotFound(result)

\* C3: every error getPost or getPosts returns carries the structured field
\* of its kind: code = "NOT_FOUND" for not-found, reason = <message> for
\* server errors.
C3_ErrorsCarryExtensions ==
  (request.op \in {"getPost", "getPosts"} /\ result.kind = "Err") =>
    IF result.err.message = NotFoundMessage
      THEN <<"code", "NOT_FOUND">> \in result.err.extensions
      ELSE \E x \in result.err.extensions : x[1] = "reason"

\* C4: for every category, database and sequence of database answers,
\* getPosts(0, category) and getPosts(1, category) send the same queries and
\* end with the same outcome, with current = 1 on success.
C4_PageZeroIsPageOne ==
  [][(request'.op = "getPosts" /\ request'.page \in {0, 1}) =>
       LET twin == getPosts(1 - request'.page, request'.category, env', db,
                            overflow_checks)
       IN  /\ result' = twin.result
           /\ queries' = twin.sent
           /\ dal_returns' = twin.dal
           /\ \A i \in 1..Len(queries') :
                queries'[i].query = "get_posts" => queries'[i].offset = 0
           /\ result'.kind = "Ok" => result'.val.current = 1]_vars

C4_Witness ==
  /\ request.op = "getPosts"
  /\ request.page = 0
  /\ request.category = "tech"
  /\ result.kind = "Ok"
  /\ result.val.current = 1
  /\ Len(result.val.results) > 0

\* C5: every successful getPosts result equals the pagination calculator on
\* (requested page, count): page_size = floor(count/5)+1 >= 1, current = the
\* page if nonzero else 1, next = page_size when current = page_size and
\* current+1 otherwise, prev = current-1, category echoed.  (current-1 is
\* the integer; no i32 equals it when current is the least i32.)
C5_ResultIsPagination ==
  (request.op = "getPosts" /\ result.kind = "Ok") =>
    LET n == dal_returns[1].val
        current == Served(request.page)
        page_size == (n \div 5) + 1
        v == result.val
    IN  /\ v.page_size = page_size
        /\ v.page_size >= 1
        /\ v.current = current
        /\ Len(v.next) = 1
        /\ v.next[1] = IF current = page_size THEN page_size ELSE current + 1
        /\ Len(v.prev) = 1
        /\ current > I32Min
        /\ v.prev[1] = current - 1
        /\ v.category = request.category

\* C6: getPost fails with NotFound whenever the by-id lookup returns no row
\* or the query errors, and on a found row returns that row exactly as
\* stored, whatever its open flag and with untruncated contents; it returns
\* a Post only when a row was fetched.
C6_GetPostOutcome ==
  request.op = "getPost" =>
    LET looked == Len(queries) = 1
        rows == {r \in db : r.id = request.id}
        fetched == looked /\ env.q1 = "ok" /\ rows # {}
    IN  /\ fetched => (result.kind = "Ok" /\ result.val \in rows)
        /\ (looked /\ ~fetched) =>
             result = [kind |-> "Err",
                       err |-> [message |-> NotFoundMessage, extensions |-> {}]]
        /\ result.kind = "Ok" => fetched
        /\ IsNotFound(result) => (looked /\ ~fetched)

C6_Witness ==
  /\ request.op = "getPost"
  /\ result.kind = "Ok"
  /\ result.val.open = 0
  /\ result.val.contents > ListContentsLength

\* C7: page_size of every successful getPosts result is the number of
\* 5-post pages needed to cover the open posts, so that with no category
\* filter and an unchanged database every accepted page 1..page_size holds
\* at least one post (stated here for requested pages >= 0).
C7_PageSizeIsPageCount ==
  (request.op = "getPosts" /\ request.page >= 0 /\ result.kind = "Ok") =>
    LET n == dal_returns[1].val
    IN  /\ result.val.page_size = (n + 4) \div 5
        /\ (request.category = "" /\ ~env.publish
            /\ result.val.current \in 1..result.val.page_size)
             => Len(result.val.results) >= 1

CountQueryFailed ==
  request.op = "getPosts" /\ env.p1 = "ok" /\ env.q1 = "fail"

\* C8 as stated: a failed count query is reported as 0 and the getPosts call
\* ends as NotFound.
C8_CountFailureIsZero ==
  CountQueryFailed =>
    /\ dal_returns[1].kind = "Ok"
    /\ dal_returns[1].val = 0
    /\ IsNotFound(result)

\* C8 amended: a failed count query makes count return
\* ServerError("unknown error"), and the getPosts call ends with the error
\* message "unknown error" (not NotFound) without issuing the page fetch.
C8_CountFailureIsServerError ==
  CountQueryFailed =>
    /\ dal_returns = <<[kind |-> "Err",
                        err |-> [tag |-> "ServerError",
                                 reason |-> "unknown error"]]>>
    /\ result = [kind |-> "Err",
                 err |-> [message |-> "unknown error", extensions |-> {}]]
    /\ ~PageFetchIssued

C8_Witness ==
  /\ CountQueryFailed
  /\ request.page = 2
  /\ result.kind = "Err"
  /\ Cardinality(db) > 0

\* C9: when pool() fails, the data access function returns that same
\* ServerError and the caller receives its detail message.
C9_PoolErrorsPropagateUnchanged ==
  request.op \in {"getPost", "getPosts"} =>
    \A i \in 1..Len(pool_returns) :
      pool_returns[i].kind = "Err" =>
        /\ dal_returns[i] = pool_returns[i]
        /\ result.kind = "Err"
        /\ result.err.message = pool_returns[i].err.reason

\* C10: every page query has limit 5 and a non-negative offset, 5*(page-1)
\* for page >= 1 and 0 for page <= 0, computed without i32 overflow, and
\* returns at most 5 posts.
C10_OffsetNonNegative ==
  \A i \in 1..Len(queries) :
    queries[i].query = "get_posts" =>
      /\ queries[i].limit = 5
      /\ queries[i].offset >= 0
      /\ IF queries[i].page >= 1
           THEN /\ queries[i].page - 1 <= I32Max \div 5
                /\ queries[i].offset = 5 * (queries[i].page - 1)
           ELSE queries[i].offset = 0
      /\ dal_returns[Len(dal_returns)].kind = "Ok" =>
           Len(dal_returns[Len(dal_returns)].val) <= 5

====
